---------------------------- MODULE Spec2Model ----------------------------
(***************************************************************************)
(* goserve: the handler pipeline of handlers.go and config.go.             *)
(*                                                                         *)
(* One request at a time travels the chain                                 *)
(*   CustomHeadersHandler (listener) > GzipHandler > LogHandler            *)
(*     > StaticServeMux > interceptHandler > CustomHeadersHandler (serve)  *)
(*     > routed handler                                                    *)
(* and every handler sees the response through the writers that wrap it:   *)
(*   InterceptResponseWriter > LoggingResponseWriter                       *)
(*     > GzipResponseWriter (when compressing) > connection.               *)
(* A substitute error handler sees statusResponseWriter >                  *)
(* LoggingResponseWriter.  The requests served at the same time appear as  *)
(* the records they write to the two log streams.  That is Spec.           *)
(*                                                                         *)
(* SpecMain is main from the configuration it reads to the dispatch of a   *)
(* request path: sanitise, check, http.Handle of the serves and redirects, *)
(* ServeMux matching.  SpecErrorHandler is a request served by the         *)
(* ErrorHandler of goserve.go.                                             *)
(***************************************************************************)
EXTENDS Integers, Sequences, FiniteSets, TLC

VARIABLES
    errors,     \* StaticServeMux.errors: status -> handler (NoHandler if none)
    pc,         \* where the process / the current request stands
    req,        \* the request being served
    rid,        \* number of the current request (identity of its irw and d)
    conn,       \* the connection's http.ResponseWriter (net/http response)
    lrw,        \* LoggingResponseWriter: *status, *size
    panicv,     \* the panic value unwinding the stack, NoPanic if none
    ops,        \* calls the routed custom handler has made so far
    logs,       \* log records emitted for the current request
    ev,         \* what InterceptResponseWriter.WriteHeader did, per call
    hset,       \* header name -> value a handler has Set ("" if none)
    hsent,      \* hset at the moment the header was committed
    gz,         \* the GzipResponseWriter and its gzip.Writer
    written,    \* the chunks passed to LoggingResponseWriter.Write, in order
    table,      \* the dispatch table: the routes registered with the mux
    sink,       \* os.Stdout and os.Stderr: the writes each has received
                \* since the current request was accepted
    pend,       \* the writes rw.log still has to make
    cfg,        \* the ServerConfig main has read
    mux,        \* the patterns registered with http.Handle, each with its handler
    picked      \* the request path last dispatched and the entry chosen for it

vars == <<errors, pc, req, rid, conn, lrw, panicv, ops, logs, ev, hset, hsent,
          gz, written, table, sink, pend, cfg, mux, picked>>

---------------------------------------------------------------------------
(* Bounds of the model. *)

\* registrations HandleError may make before the listeners start
MaxErrors == 1
\* calls a routed custom handler makes on its writer before it returns
MaxOps == 2
\* requests served one after the other
MaxRequests == 1
\* records the requests served at the same time write to the log streams
MaxOthers == 1

---------------------------------------------------------------------------
(* Values. *)

NoHandler == <<>>
NoPanic == <<"none", 0>>

\* http.StatusOK, the status net/http commits on a Write without WriteHeader
StatusOK == 200
StatusMovedPermanently == 301
StatusBadRequest == 400
StatusForbidden == 403
StatusNotFound == 404
\* the first status above the range rw.log sends to os.Stderr
LogErrorBelow == 600

\* the statuses HandleError is called with
Registrable == {StatusOK, StatusMovedPermanently, StatusBadRequest,
                StatusForbidden, StatusNotFound}

\* the statuses a response may get: those, and from a serve with `error`
\* the last 5xx and the first status that is neither 4xx nor 5xx
Statuses == Registrable \cup {LogErrorBelow - 1, LogErrorBelow}

\* http.StatusText
StatusText(s) ==
    CASE s = 200 -> "OK"
      [] s = 301 -> "Moved Permanently"
      [] s = 400 -> "Bad Request"
      [] s = 403 -> "Forbidden"
      [] s = 404 -> "Not Found"
      [] OTHER -> ""

\* len(b) of the bodies written: what the connection reports as written
Size(data) ==
    CASE data = "OK" -> 3
      [] data = "Moved Permanently" -> 18
      [] data = "Bad Request" -> 12
      [] data = "Forbidden" -> 10
      [] data = "Not Found" -> 10
      [] data = "404 page not found" -> 19
      [] data = "" -> 1
      [] OTHER -> 4

\* A chunk of body: who wrote it and what.
Chunk(by, data) == [by |-> by, data |-> data]

\* Header names of the model, in canonical form.
HeaderNames == {"Cache-Control", "Content-Type", "X-Content-Type-Options",
                "Location", "Connection", "Content-Encoding"}

\* textproto.CanonicalMIMEHeaderKey, as used by Header.Get and Header.Set
Canon(k) ==
    CASE k = "cache-control" -> "Cache-Control"
      [] k = "content-type" -> "Content-Type"
      [] OTHER -> k

NoHeaders == [k \in HeaderNames |-> ""]

\* values of the request's Accept-Encoding header, as the characters
\* strings.Contains sees: none, gzip, deflate, and gzip refused with q=0
AeNone == <<>>
AeGzip == <<"g", "z", "i", "p">>
AeDeflate == <<"d", "e", "f", "l", "a", "t", "e">>
AeGzipRefused == AeGzip \o <<";", "q", "=", "0">>

AcceptEncodings == {AeNone, AeGzip, AeDeflate, AeGzipRefused}

\* strings.Contains(s, substr)
Contains(s, substr) ==
    \E i \in 0..(Len(s) - Len(substr)) :
        SubSeq(s, i + 1, i + Len(substr)) = substr

\* http.DetectContentType of the bodies written
DetectContentType(data) ==
    IF data \in {"page", "index", "file", "listing"}
    THEN "text/html; charset=utf-8"
    ELSE "text/plain; charset=utf-8"

\* no GzipResponseWriter: the response is not compressed
NoGzip ==
    [active |-> FALSE, gotContentType |-> FALSE, wroteHeader |-> FALSE,
     buf |-> <<>>, err |-> FALSE, closes |-> 0, n |-> 0, types |-> <<>>]

\* what the gzip.Writer sends to the writer below it: the header of the
\* stream, then the deflated chunks with the trailer
GzipHeader == [by |-> "gzip", data |-> "header", z |-> <<>>]
GzipFrame(buf) == [by |-> "gzip", data |-> "frame", z |-> buf]

\* gzip.Reader over a delivered body: the chunks that were compressed, or
\* no valid stream
Gunzip(body) ==
    IF Len(body) = 2 /\ body[1] = GzipHeader /\ body[2] = GzipFrame(body[2].z)
    THEN [ok |-> TRUE, data |-> body[2].z]
    ELSE [ok |-> FALSE, data |-> <<>>]


---------------------------------------------------------------------------
(* Panic values.  A token is a pointer: it is identified by the invocation *)
(* that allocated it.  Invocation 0 is no request of the model: a token of *)
(* another invocation.                                                     *)

IrwToken(n) == <<"irw", n>>
DirToken(n) == <<"dir", n>>
Fault == <<"fault", 0>>

\* what a handler that is not this repository's may panic with
ForeignPanics == {Fault, IrwToken(0), DirToken(0)}

---------------------------------------------------------------------------
(* The writers.  W is the part of the state a handler reaches through its  *)
(* writer: [conn, lrw, panicv, ev, hset, hsent, gz, written].              *)

\* net/http response.WriteHeader: the first call commits status and header,
\* a later call is ignored
ConnWriteHeader(W, s) ==
    IF W.conn.wroteHeader
    THEN W
    ELSE [W EXCEPT !.conn.wroteHeader = TRUE,
                   !.conn.status = s,
                   !.conn.sent = W.conn.header,
                   !.hsent = W.hset]

\* Header().Set(k, v) by a handler
HeaderSet(W, k, v) ==
    [W EXCEPT !.conn.header[Canon(k)] = v, !.hset[Canon(k)] = v]

\* Header().Del(k) by a handler
HeaderDel(W, k) ==
    [W EXCEPT !.conn.header[Canon(k)] = "", !.hset[Canon(k)] = ""]

\* net/http response.Write: commits 200 if nothing is committed, then
\* sends the bytes and returns their number; the write fails once the client
\* has gone, which is after req.quota writes, and returns the number of
\* bytes that went out before the error, req.partial
ConnWrite(W, chunk) ==
    LET W1 == ConnWriteHeader(W, StatusOK)
    IN  IF ~req.gone \/ Len(W1.conn.body) < req.quota
        THEN [W1 EXCEPT !.conn.body = Append(@, chunk),
                        !.conn.n = Size(chunk.data)]
        ELSE [W1 EXCEPT !.conn.failed = TRUE, !.conn.n = req.partial]

\* gzip.Writer.Write: nothing after an error; the header of the stream goes
\* out with the first call; the chunk is taken by the compressor.  It
\* returns 0 with an error, the length of the chunk otherwise
GzipWrite(W, chunk) ==
    IF W.gz.err
    THEN [W EXCEPT !.gz.n = 0]
    ELSE LET W1 == IF W.gz.wroteHeader
                   THEN W
                   ELSE [ConnWrite(W, GzipHeader) EXCEPT !.gz.wroteHeader = TRUE]
         IN  IF W1.conn.failed
             THEN [W1 EXCEPT !.gz.err = TRUE, !.gz.n = 0]
             ELSE [W1 EXCEPT !.gz.buf = Append(@, chunk),
                             !.gz.n = Size(chunk.data)]

\* gzip.Writer.Close: the header if no Write sent it, then what the
\* compressor holds and the trailer; nothing after an error
GzipClose(W) ==
    LET W0 == [W EXCEPT !.gz.closes = @ + 1]
        W1 == IF W0.gz.wroteHeader
              THEN W0
              ELSE [ConnWrite(W0, GzipHeader) EXCEPT !.gz.wroteHeader = TRUE]
        W2 == ConnWrite(W1, GzipFrame(W1.gz.buf))
    IN  IF W.gz.err \/ W.gz.closes > 0
        THEN W0
        ELSE IF W1.conn.failed
             THEN [W1 EXCEPT !.gz.err = TRUE]
             ELSE [W2 EXCEPT !.gz.err = W2.conn.failed]

\* the writer without the gzip.Writer: the bytes go to the connection as
\* they are
GzipResponseWriterWrite_Bypass(W, chunk) == ConnWrite(W, chunk)

\* the Content-Type of the response before and after one call of
\* GzipResponseWriter.Write, W1 the state after its first statement
ContentTypes(W, W1) ==
    [before |-> W.conn.header["Content-Type"],
     after |-> W1.conn.header["Content-Type"]]

\* Write without its test of Content-Type == "": the first chunk decides
GzipResponseWriterWrite_Always(W, chunk) ==
    LET W1 == IF W.gz.gotContentType
              THEN W
              ELSE [ HeaderSet(W, "Content-Type", DetectContentType(chunk.data))
                     EXCEPT !.gz.gotContentType = TRUE ]
    IN  GzipWrite([W1 EXCEPT !.gz.types = Append(@, ContentTypes(W, W1))], chunk)

\* GzipResponseWriter.Write: the content type from the first uncompressed
\* bytes if none is set, then the gzip.Writer
GzipResponseWriterWrite(W, chunk) ==
    LET W1 == IF W.gz.gotContentType
              THEN W
              ELSE [ (IF W.conn.header["Content-Type"] = ""
                      THEN HeaderSet(W, "Content-Type", DetectContentType(chunk.data))
                      ELSE W)
                     EXCEPT !.gz.gotContentType = TRUE ]
    IN  GzipWrite([W1 EXCEPT !.gz.types = Append(@, ContentTypes(W, W1))], chunk)

\* LoggingResponseWriter.WriteHeader
LrwWriteHeader(W, s) ==
    LET W1 == ConnWriteHeader(W, s)
    IN  [W1 EXCEPT !.lrw.status = s]

\* Write adding len(b) to *size, whatever the wrapped writer returns
LrwWrite_CountsLen(W, chunk) ==
    LET W0 == [W EXCEPT !.written = Append(@, chunk)]
        W1 == IF W.gz.active
              THEN GzipResponseWriterWrite(W0, chunk)
              ELSE ConnWrite(W0, chunk)
    IN  [W1 EXCEPT !.lrw.size = @ + Size(chunk.data)]

\* LoggingResponseWriter.Write: the wrapped writer's Write, and the count it
\* returns added to *size
LrwWrite(W, chunk) ==
    LET W0 == [W EXCEPT !.written = Append(@, chunk)]
        W1 == IF W.gz.active
              THEN GzipResponseWriterWrite(W0, chunk)
              ELSE ConnWrite(W0, chunk)
        c == IF W.gz.active THEN W1.gz.n ELSE W1.conn.n
    IN  [W1 EXCEPT !.lrw.size = @ + c]

\* http.Error(w, text, code) on the LoggingResponseWriter
HttpErrorLrw(W, text, code, by) ==
    LET W1 == HeaderSet(W, "Content-Type", "text/plain; charset=utf-8")
        W2 == HeaderSet(W1, "X-Content-Type-Options", "nosniff")
        W3 == LrwWriteHeader(W2, code)
    IN  LrwWrite(W3, Chunk(by, text))

\* WriteHeader passing on the status it is called with
SrwWriteHeader_Unpinned(W, Status, status) == LrwWriteHeader(W, status)

\* statusResponseWriter.WriteHeader with the pinned status Status
SrwWriteHeader(W, Status, status) ==
    IF Status < 0
    THEN W
    ELSE IF Status > 0
         THEN LrwWriteHeader(W, Status)
         ELSE LrwWriteHeader(W, status)

\* statusResponseWriter.Write: the embedded writer's
SrwWrite(W, chunk) == LrwWrite(W, chunk)

---------------------------------------------------------------------------
(* Handlers registered with HandleError.  A handler is the sequence of     *)
(* calls it makes on its writer.                                           *)

OpWriteHeader(s) == [op |-> "WriteHeader", s |-> s, k |-> "", v |-> ""]
OpWrite(data) == [op |-> "Write", s |-> 0, k |-> "", v |-> data]
OpSet(k, v) == [op |-> "Set", s |-> 0, k |-> k, v |-> v]
OpDel(k) == [op |-> "Del", s |-> 0, k |-> k, v |-> ""]

\* Error.handler: Header().Del("Content-Type"), then http.ServeFile of the
\* target.  found: the target exists and is served with 200; otherwise
\* ServeFile answers http.Error(w, "404 page not found", 404).
ErrorHandler(found) ==
    IF found
    THEN <<OpDel("Content-Type"), OpSet("Content-Type", "text/html"),
           OpWriteHeader(StatusOK), OpWrite("page")>>
    ELSE <<OpDel("Content-Type"),
           OpSet("Content-Type", "text/plain; charset=utf-8"),
           OpSet("X-Content-Type-Options", "nosniff"),
           OpWriteHeader(StatusNotFound), OpWrite("404 page not found")>>

\* a handler that writes its body and never calls WriteHeader
WriteOnlyHandler == <<OpWrite("body")>>

\* a handler that calls WriteHeader twice, with two statuses
TwiceHandler ==
    <<OpWriteHeader(StatusForbidden), OpWriteHeader(StatusOK), OpWrite("body")>>

ErrorHandlers ==
    {ErrorHandler(TRUE), ErrorHandler(FALSE), WriteOnlyHandler, TwiceHandler}

\* h.ServeHTTP(statusResponseWriter{w, status}, req): the calls of h, in order
RECURSIVE ServeSubstitute(_, _, _)
ServeSubstitute(W, Status, h) ==
    IF h = <<>>
    THEN W
    ELSE LET o == Head(h)
             W1 == CASE o.op = "WriteHeader" -> SrwWriteHeader(W, Status, o.s)
                      [] o.op = "Write" -> SrwWrite(W, Chunk("substitute", o.v))
                      [] o.op = "Set" -> HeaderSet(W, o.k, o.v)
                      [] OTHER -> HeaderDel(W, o.k)
         IN  ServeSubstitute(W1, Status, Tail(h))

---------------------------------------------------------------------------
(* StaticServeMux: interception.                                           *)

\* What one call of InterceptResponseWriter.WriteHeader did.
Event(W, s, kind) ==
    [status |-> s, kind |-> kind,
     committed |-> W.conn.wroteHeader, before |-> Len(W.written)]

\* intercept without its test of status < 400: any status without handler
\* gets the generic text
intercept_NoStatusTest(W, status) ==
    IF errors[status] # NoHandler
    THEN [W |-> ServeSubstitute([W EXCEPT !.ev = Append(@, Event(W, status, "handler"))],
                                status, errors[status]),
          hit |-> TRUE]
    ELSE [W |-> HttpErrorLrw([W EXCEPT !.ev = Append(@, Event(W, status, "generic"))],
                             StatusText(status), status, "generic"),
          hit |-> TRUE]

\* intercept returning false after the generic text
intercept_GenericProceeds(W, status) ==
    IF errors[status] # NoHandler
    THEN [W |-> ServeSubstitute([W EXCEPT !.ev = Append(@, Event(W, status, "handler"))],
                                status, errors[status]),
          hit |-> TRUE]
    ELSE IF status < 400
         THEN [W |-> [W EXCEPT !.ev = Append(@, Event(W, status, "pass"))],
               hit |-> FALSE]
         ELSE [W |-> HttpErrorLrw([W EXCEPT !.ev = Append(@, Event(W, status, "generic"))],
                                  StatusText(status), status, "generic"),
               hit |-> FALSE]

\* StaticServeMux.intercept(status, w, req), w the LoggingResponseWriter:
\* [W |-> the state after it, hit |-> what it returns]
intercept(W, status) ==
    IF errors[status] # NoHandler
    THEN [W |-> ServeSubstitute([W EXCEPT !.ev = Append(@, Event(W, status, "handler"))],
                                status, errors[status]),
          hit |-> TRUE]
    ELSE IF status < 400
         THEN [W |-> [W EXCEPT !.ev = Append(@, Event(W, status, "pass"))],
               hit |-> FALSE]
         ELSE [W |-> HttpErrorLrw([W EXCEPT !.ev = Append(@, Event(W, status, "generic"))],
                                  StatusText(status), status, "generic"),
               hit |-> TRUE]

\* InterceptResponseWriter.WriteHeader: panics with the writer itself if the
\* response was intercepted, otherwise writes the status
IrwWriteHeader(W, status) ==
    LET r == intercept(W, status)
    IN  IF r.hit
        THEN [r.W EXCEPT !.panicv = IrwToken(rid)]
        ELSE LrwWriteHeader(r.W, status)

\* InterceptResponseWriter.Write: the embedded writer's
IrwWrite(W, chunk) == LrwWrite(W, chunk)

\* http.Error(w, text, code) on the InterceptResponseWriter: the body is
\* written only if WriteHeader returns
HttpErrorIrw(W, text, code, by) ==
    LET W1 == HeaderSet(W, "Content-Type", "text/plain; charset=utf-8")
        W2 == HeaderSet(W1, "X-Content-Type-Options", "nosniff")
        W3 == IrwWriteHeader(W2, code)
    IN  IF W3.panicv # NoPanic THEN W3 ELSE IrwWrite(W3, Chunk(by, text))

---------------------------------------------------------------------------
(* The file server.                                                        *)

\* what a request path resolves to under the served directory
FsEntries == {"file", "missing", "dirIndex", "dirNoIndex"}

\* serveContent: the content type, 200, the bytes
ServeContent(W, data) ==
    LET W1 == HeaderSet(W, "Content-Type", "text/html")
        W2 == IrwWriteHeader(W1, StatusOK)
    IN  IF W2.panicv # NoPanic THEN W2 ELSE IrwWrite(W2, Chunk("routed", data))

\* dirList: the content type and the listing, without WriteHeader
DirList(W) ==
    IrwWrite(HeaderSet(W, "Content-Type", "text/html; charset=utf-8"),
             Chunk("routed", "listing"))

\* PreventListingDir.Open(name): whether it panics with dir.  opens: whether
\* Dir.Open returns a file
PreventListingOpenPanics(opens) == ~opens

\* http.FileServer(root).ServeHTTP on the InterceptResponseWriter: Open the
\* path; for a directory Open its index.html; serve the file, the index or
\* the listing.  prevent: root is a PreventListingDir.
FileServer(W, entry, prevent) ==
    LET openPath == entry # "missing"
        openIndex == entry = "dirIndex"
        panicked == [W EXCEPT !.panicv = DirToken(rid)]
    IN  IF ~openPath
        THEN IF prevent /\ PreventListingOpenPanics(openPath)
             THEN panicked
             ELSE HttpErrorIrw(W, "404 page not found", StatusNotFound, "routed")
        ELSE IF entry = "file"
             THEN ServeContent(W, "file")
             ELSE IF openIndex
                  THEN ServeContent(W, "index")
                  ELSE IF prevent /\ PreventListingOpenPanics(openIndex)
                       THEN panicked
                       ELSE DirList(W)

---------------------------------------------------------------------------
(* CustomHeadersHandler.                                                   *)

\* Headers, a map from header name to value, as a listener or a serve
\* configures it
HeadersA == {<<"Cache-Control", "cfg-a">>}
HeadersB == {<<"cache-control", "cfg-b">>, <<"Content-Type", "cfg-ct">>}

\* the listener's headers and the serve's headers of a request
HeaderConfigs == { <<{}, {}>>, <<HeadersB, HeadersA>>, <<{}, HeadersB>> }

ListenerConfigs == { h[1] : h \in HeaderConfigs }

\* the orders in which `range headers` may visit a map
RECURSIVE Orders(_)
Orders(S) ==
    IF S = {}
    THEN {<<>>}
    ELSE UNION { { <<x>> \o o : o \in Orders(S \ {x}) } : x \in S }

\* the loop without its test of wh.Get(k) == ""
RECURSIVE CustomHeaders_Overwrite(_, _)
CustomHeaders_Overwrite(header, order) ==
    IF order = <<>>
    THEN header
    ELSE CustomHeaders_Overwrite([header EXCEPT ![Canon(Head(order)[1])] = Head(order)[2]],
                                 Tail(order))

\* the loop of CustomHeadersHandler over headers, visited in this order:
\* a header is set only if the response has no value for it
RECURSIVE CustomHeaders(_, _)
CustomHeaders(header, order) ==
    IF order = <<>>
    THEN header
    ELSE LET k == Canon(Head(order)[1])
             v == Head(order)[2]
         IN  CustomHeaders(IF header[k] = "" THEN [header EXCEPT ![k] = v] ELSE header,
                           Tail(order))

---------------------------------------------------------------------------
(* Requests.                                                               *)

\* the routes of the dispatch table: no route matched, a serve with `error`,
\* a redirect, a serve with `indexes`, a serve that suppresses listings, and
\* a handler that is not this repository's
Routes == {"none", "error", "redirect", "indexes", "suppress", "custom"}

\* paths and patterns, as the sequence of their separators and names; the
\* empty string is <<>>
PRoot == <<"/">>
PFiles == <<"/", "files", "/">>
PSecret == PFiles \o <<"secret">>
POther == PFiles \o <<"other">>
PBelow == PSecret \o <<"/", "x">>
POld == <<"/", "old">>

\* Serve
ServeOf(path, target, error, indexes) ==
    [Path |-> path, Target |-> target, Error |-> error, Indexes |-> indexes]

\* a serve that sets neither `error` nor `indexes`: the zero values
DefaultServe == ServeOf(PFiles, "dir", 0, FALSE)

\* Serve.handler: the route a serve is given
ServeHandler(s) ==
    IF s.Error > 0
    THEN "error"
    ELSE IF s.Indexes THEN "indexes" ELSE "suppress"

\* a request to a listener without gzip, from a client that stays
RequestOf(uri, proto11, route, code, entry, fault, lhdr, shdr) ==
    [uri |-> uri, proto11 |-> proto11, route |-> route, code |-> code,
     entry |-> entry, fault |-> fault, lhdr |-> lhdr, shdr |-> shdr,
     gzip |-> FALSE, ae |-> AeNone, gone |-> FALSE, quota |-> 0,
     partial |-> 0]

\* the request to a listener with gzip: true, with this Accept-Encoding
WithGzip(r, ae) == [r EXCEPT !.gzip = TRUE, !.ae = ae]

\* the request from a client that goes away after quota writes reached it
WithDisconnect(r, quota) == [r EXCEPT !.gone = TRUE, !.quota = quota]

\* the request whose failing write reports n bytes as written
WithPartial(r, n) == [r EXCEPT !.partial = n]

NoRequest == RequestOf("", FALSE, "none", 0, "file", NoPanic, {}, {})

PlainRequests ==
    { RequestOf("*", p, "none", 0, "file", NoPanic, l, {}) :
        p \in BOOLEAN, l \in ListenerConfigs }
    \cup { RequestOf("/", TRUE, "none", 0, "file", NoPanic, l, {}) :
        l \in ListenerConfigs }
    \cup { RequestOf("/", TRUE, "redirect", StatusMovedPermanently, "file", NoPanic, l, {}) :
        l \in ListenerConfigs }
    \cup { RequestOf("/", TRUE, "error", c, "file", NoPanic, h[1], h[2]) :
        c \in {StatusForbidden, StatusNotFound}, h \in HeaderConfigs }
    \cup { RequestOf("/", TRUE, "error", c, "file", NoPanic, {}, {}) :
        c \in Statuses \ Registrable }
    \cup { RequestOf("/", TRUE, "indexes", 0, e, NoPanic, h[1], h[2]) :
        e \in FsEntries, h \in HeaderConfigs }
    \cup { RequestOf("/", TRUE, "suppress", 0, e, NoPanic, h[1], h[2]) :
        e \in FsEntries, h \in HeaderConfigs }
    \cup { RequestOf("/", TRUE, "suppress", 0, "file", f, {}, {}) :
        f \in ForeignPanics }
    \cup { RequestOf("/", TRUE, "custom", 0, "file", NoPanic, h[1], h[2]) :
        h \in HeaderConfigs \ {<<{}, HeadersB>>} }

\* the requests sent to a listener with gzip: true
GzipBase ==
    { RequestOf("*", TRUE, "none", 0, "file", NoPanic, {}, {}),
      RequestOf("/", TRUE, "none", 0, "file", NoPanic, {}, {}),
      RequestOf("/", TRUE, "error", StatusNotFound, "file", NoPanic, {}, {}),
      RequestOf("/", TRUE, "suppress", 0, "file", NoPanic, {}, {}),
      RequestOf("/", TRUE, "suppress", 0, "dirNoIndex", NoPanic, {}, {}),
      RequestOf("/", TRUE, "suppress", 0, "file", Fault, {}, {}) }

GzipRequests ==
    { WithGzip(r, ae) : r \in GzipBase, ae \in AcceptEncodings }
    \cup { WithGzip(RequestOf("/", TRUE, "custom", 0, "file", NoPanic, {}, {}), AeGzip) }

\* the requests of clients that go away before the response is complete
DisconnectRequests ==
    { WithDisconnect(r, q) :
        r \in { RequestOf("/", TRUE, "error", StatusNotFound, "file", NoPanic, {}, {}),
                WithGzip(RequestOf("/", TRUE, "suppress", 0, "file", NoPanic, {}, {}), AeGzip),
                WithGzip(RequestOf("/", TRUE, "error", StatusNotFound, "file", NoPanic, {}, {}), AeGzip) },
        q \in {0, 1} }
    \cup { WithPartial(WithDisconnect(
                RequestOf("/", TRUE, "error", StatusNotFound, "file", NoPanic, {}, {}), q), 2) :
            q \in {0, 1} }

Requests == PlainRequests \cup GzipRequests \cup DisconnectRequests

NewConn ==
    [wroteHeader |-> FALSE, status |-> 0, header |-> NoHeaders,
     sent |-> NoHeaders, body |-> <<>>, failed |-> FALSE, n |-> 0]

NoSink == [stdout |-> <<>>, stderr |-> <<>>]

\* a ServerConfig without listeners, serves and redirects
NoConfig == [Listeners |-> <<>>, Serves |-> <<>>, Redirects |-> <<>>]

\* the entry of a path no pattern matches, and no dispatch yet
NoEntry == [pattern |-> <<>>, h |-> <<>>]
NoPick == [path |-> <<>>, e |-> NoEntry]

\* the state a handler reaches through its writer
World ==
    [conn |-> conn, lrw |-> lrw, panicv |-> panicv, ev |-> ev,
     hset |-> hset, hsent |-> hsent, gz |-> gz, written |-> written]

Becomes(W) ==
    /\ conn' = W.conn
    /\ lrw' = W.lrw
    /\ panicv' = W.panicv
    /\ ev' = W.ev
    /\ hset' = W.hset
    /\ hsent' = W.hsent
    /\ gz' = W.gz
    /\ written' = W.written

Registered == {s \in Statuses : errors[s] # NoHandler}

---------------------------------------------------------------------------
(* Configuration.                                                          *)

\* nothing registered, no request, nothing written
Fresh ==
    /\ errors = [s \in Statuses |-> NoHandler]
    /\ req = NoRequest
    /\ rid = 0
    /\ conn = NewConn
    /\ lrw = [status |-> 0, size |-> 0]
    /\ panicv = NoPanic
    /\ ops = 0
    /\ logs = <<>>
    /\ ev = <<>>
    /\ hset = NoHeaders
    /\ hsent = NoHeaders
    /\ gz = NoGzip
    /\ written = <<>>
    /\ table = {}
    /\ sink = NoSink
    /\ pend = <<>>
    /\ mux = {}
    /\ picked = NoPick

Init ==
    /\ Fresh
    /\ pc = "config"
    /\ cfg = NoConfig

\* HandleError without its test: the later registration replaces the first
HandleError_Overwrite(status, handler) ==
    /\ pc = "config"
    /\ errors[status] # NoHandler \/ Cardinality(Registered) < MaxErrors
    /\ errors' = [errors EXCEPT ![status] = handler]
    /\ UNCHANGED <<pc, req, rid, conn, lrw, panicv, ops, logs, ev, hset, hsent,
                   gz, written, table, sink, pend,
                   cfg, mux, picked>>

\* HandleError called between two requests as well
HandleError_WhileServing(status, handler) ==
    /\ pc \in {"config", "idle"}
    /\ errors[status] = NoHandler
    /\ Cardinality(Registered) < MaxErrors
    /\ errors' = [errors EXCEPT ![status] = handler]
    /\ UNCHANGED <<pc, req, rid, conn, lrw, panicv, ops, logs, ev, hset, hsent,
                   gz, written, table, sink, pend,
                   cfg, mux, picked>>

\* StaticServeMux.HandleError(status, handler)
HandleError(status, handler) ==
    /\ pc = "config"
    /\ IF errors[status] # NoHandler
       THEN /\ pc' = "configPanic"
            /\ UNCHANGED errors
       ELSE /\ Cardinality(Registered) < MaxErrors
            /\ errors' = [errors EXCEPT ![status] = handler]
            /\ UNCHANGED pc
    /\ UNCHANGED <<req, rid, conn, lrw, panicv, ops, logs, ev, hset, hsent, gz, written, table, sink, pend,
                   cfg, mux, picked>>

\* main: the serves and the redirects of the configuration are registered
\* with the mux
Handle ==
    /\ pc = "config"
    /\ table = {}
    /\ table' = Routes \ {"none"}
    /\ UNCHANGED <<errors, pc, req, rid, conn, lrw, panicv, ops, logs, ev, hset,
                   hsent, gz, written, sink, pend,
                   cfg, mux, picked>>

\* main: the listeners start once the handlers are registered
Listen ==
    /\ pc = "config"
    /\ pc' = "idle"
    /\ UNCHANGED <<errors, req, rid, conn, lrw, panicv, ops, logs, ev, hset, hsent, gz, written, table, sink, pend,
                   cfg, mux, picked>>

---------------------------------------------------------------------------
(* One request.                                                            *)

\* the handler a listener serves: its CustomHeadersHandler, if it configures
\* headers, around GzipHandler, if it configures gzip, around LogHandler
\* around the mux
ListenerChain(layer, r) ==
    CASE layer = "accept" ->
            IF r.lhdr # {} THEN "listener" ELSE IF r.gzip THEN "gzip" ELSE "log"
      [] layer = "listener" -> IF r.gzip THEN "gzip" ELSE "log"
      [] layer = "gzip" -> "log"
      [] OTHER -> "mux"

\* Serve.handler: the serve's CustomHeadersHandler, if it configures headers,
\* around SuppressListingHandler or another handler
ServeChain(layer, r) ==
    IF layer = "mux" /\ r.shdr # {}
    THEN "serve"
    ELSE IF r.route = "suppress" THEN "suppress" ELSE "routed"

\* the server hands request r and a fresh response to the listener's handler
Accept(r) ==
    /\ pc = "idle"
    /\ rid < MaxRequests
    /\ r.route \in table \cup {"none"}
    /\ rid' = rid + 1
    /\ req' = r
    /\ pc' = ListenerChain("accept", r)
    /\ UNCHANGED <<errors, conn, lrw, panicv, ops, logs, ev, hset, hsent, gz, written, table, sink, pend,
                   cfg, mux, picked>>

\* CustomHeadersHandler(h, headers): the listener's, or the serve's
CustomHeadersHandler ==
    /\ pc \in {"listener", "serve"}
    /\ \E order \in Orders(IF pc = "listener" THEN req.lhdr ELSE req.shdr) :
         conn' = [conn EXCEPT !.header = CustomHeaders(conn.header, order)]
    /\ pc' = IF pc = "listener"
             THEN ListenerChain("listener", req)
             ELSE ServeChain("serve", req)
    /\ UNCHANGED <<errors, req, rid, lrw, panicv, ops, logs, ev, hset, hsent, gz, written, table, sink, pend,
                   cfg, mux, picked>>

\* GzipHandler, up to its call of h.ServeHTTP: with the writer it was given
\* if Accept-Encoding does not contain "gzip", otherwise with a
\* GzipResponseWriter over a new gzip.Writer, Content-Encoding set
GzipHandler ==
    /\ pc = "gzip"
    /\ IF ~Contains(req.ae, AeGzip)
       THEN Becomes(World)
       ELSE Becomes([HeaderSet(World, "Content-Encoding", "gzip")
                        EXCEPT !.gz = [NoGzip EXCEPT !.active = TRUE]])
    /\ pc' = ListenerChain("gzip", req)
    /\ UNCHANGED <<errors, req, rid, ops, logs, table, sink, pend,
                   cfg, mux, picked>>

\* NewLoggingResponseWriter
NewLoggingResponseWriter == [status |-> StatusOK, size |-> 0]

\* LogHandler, up to its call of h.ServeHTTP(rw, r)
LogHandler ==
    /\ pc = "log"
    /\ lrw' = NewLoggingResponseWriter
    /\ pc' = ListenerChain("log", req)
    /\ UNCHANGED <<errors, req, rid, conn, panicv, ops, logs, ev, hset, hsent, gz, written, table, sink, pend,
                   cfg, mux, picked>>

\* ServeHTTP answering "*" through the intercepting writer
ServeHTTP_Intercepted ==
    /\ pc = "mux"
    /\ IF req.uri = "*"
       THEN /\ Becomes([IrwWriteHeader(
                  IF req.proto11 THEN HeaderSet(World, "Connection", "close") ELSE World,
                  StatusBadRequest) EXCEPT !.panicv = NoPanic])
            /\ pc' = "logReturn"
       ELSE /\ Becomes(World)
            /\ pc' = ServeChain("mux", req)
    /\ UNCHANGED <<errors, req, rid, ops, logs, table, sink, pend,
                   cfg, mux, picked>>

\* StaticServeMux.ServeHTTP on the LoggingResponseWriter, up to the call of
\* the routed handler under interceptHandler
ServeHTTP ==
    /\ pc = "mux"
    /\ IF req.uri = "*"
       THEN /\ Becomes(LrwWriteHeader(
                  IF req.proto11 THEN HeaderSet(World, "Connection", "close") ELSE World,
                  StatusBadRequest))
            /\ pc' = "logReturn"
       ELSE /\ Becomes(World)
            /\ pc' = ServeChain("mux", req)
    /\ UNCHANGED <<errors, req, rid, ops, logs, table, sink, pend,
                   cfg, mux, picked>>

---------------------------------------------------------------------------
(* The routed handlers, each on the InterceptResponseWriter.               *)

\* http.NotFoundHandler, which ServeMux.Handler returns when no pattern matches
NotFoundHandler ==
    /\ pc = "routed"
    /\ req.route = "none"
    /\ Becomes(HttpErrorIrw(World, "404 page not found", StatusNotFound, "routed"))
    /\ pc' = "interceptDefer"
    /\ UNCHANGED <<errors, req, rid, ops, logs, table, sink, pend,
                   cfg, mux, picked>>

\* Serve.handler with Error > 0: http.Error(w, http.StatusText(errStatus), errStatus)
ServeErrorHandler ==
    /\ pc = "routed"
    /\ req.route = "error"
    /\ Becomes(HttpErrorIrw(World, StatusText(req.code), req.code, "routed"))
    /\ pc' = "interceptDefer"
    /\ UNCHANGED <<errors, req, rid, ops, logs, table, sink, pend,
                   cfg, mux, picked>>

\* Redirect.handler: http.RedirectHandler(r.To, r.With)
RedirectHandler ==
    /\ pc = "routed"
    /\ req.route = "redirect"
    /\ LET W1 == IrwWriteHeader(HeaderSet(World, "Location", "to"), req.code)
       IN  Becomes(IF W1.panicv # NoPanic
                   THEN W1
                   ELSE IrwWrite(W1, Chunk("routed", StatusText(req.code))))
    /\ pc' = "interceptDefer"
    /\ UNCHANGED <<errors, req, rid, ops, logs, table, sink, pend,
                   cfg, mux, picked>>

\* Serve.handler with Indexes: http.FileServer(http.Dir(s.Target))
IndexesHandler ==
    /\ pc = "routed"
    /\ req.route = "indexes"
    /\ Becomes(FileServer(World, req.entry, FALSE))
    /\ pc' = "interceptDefer"
    /\ UNCHANGED <<errors, req, rid, ops, logs, table, sink, pend,
                   cfg, mux, picked>>

\* SuppressListingHandler, up to the end of h.ServeHTTP(w, r): the file
\* server over a PreventListingDir; it may also end in a panic that is
\* not the directory's
SuppressListingHandler ==
    /\ pc = "suppress"
    /\ Becomes(IF req.fault # NoPanic
               THEN [World EXCEPT !.panicv = req.fault]
               ELSE FileServer(World, req.entry, TRUE))
    /\ pc' = "suppressDefer"
    /\ UNCHANGED <<errors, req, rid, ops, logs, table, sink, pend,
                   cfg, mux, picked>>

\* the test of SuppressListingHandler's deferred function: p == d
SuppressRecovers(p) == p = DirToken(rid)

\* the deferred function of SuppressListingHandler
SuppressListingRecover ==
    /\ pc = "suppressDefer"
    /\ IF panicv # NoPanic /\ SuppressRecovers(panicv)
       THEN Becomes(HttpErrorIrw([World EXCEPT !.panicv = NoPanic],
                                 StatusText(StatusForbidden), StatusForbidden,
                                 "suppress"))
       ELSE Becomes(World)
    /\ pc' = "interceptDefer"
    /\ UNCHANGED <<errors, req, rid, ops, logs, table, sink, pend,
                   cfg, mux, picked>>

---------------------------------------------------------------------------
(* A routed handler that is not this repository's: any calls on its        *)
(* writer, in any order, until it returns or panics.                       *)

CustomWriteHeader(s) ==
    /\ pc = "routed"
    /\ req.route = "custom"
    /\ ops < MaxOps
    /\ ops' = ops + 1
    /\ LET W1 == IrwWriteHeader(World, s)
       IN  /\ Becomes(W1)
           /\ pc' = IF W1.panicv # NoPanic THEN "interceptDefer" ELSE "routed"
    /\ UNCHANGED <<errors, req, rid, logs, table, sink, pend,
                   cfg, mux, picked>>

CustomWrite ==
    /\ pc = "routed"
    /\ req.route = "custom"
    /\ ops < MaxOps
    /\ ops' = ops + 1
    /\ Becomes(IrwWrite(World, Chunk("routed", "body")))
    /\ UNCHANGED <<errors, pc, req, rid, logs, table, sink, pend,
                   cfg, mux, picked>>

CustomSetHeader ==
    /\ pc = "routed"
    /\ req.route = "custom"
    /\ ops < MaxOps
    /\ ops' = ops + 1
    /\ Becomes(HeaderSet(World, "Cache-Control", "handler"))
    /\ UNCHANGED <<errors, pc, req, rid, logs, table, sink, pend,
                   cfg, mux, picked>>

CustomPanic(v) ==
    /\ pc = "routed"
    /\ req.route = "custom"
    /\ panicv' = v
    /\ pc' = "interceptDefer"
    /\ UNCHANGED <<errors, req, rid, conn, lrw, ops, logs, ev, hset, hsent, gz, written, table, sink, pend,
                   cfg, mux, picked>>

CustomReturn ==
    /\ pc = "routed"
    /\ req.route = "custom"
    /\ pc' = "interceptDefer"
    /\ UNCHANGED <<errors, req, rid, conn, lrw, panicv, ops, logs, ev, hset, hsent, gz, written, table, sink, pend,
                   cfg, mux, picked>>

---------------------------------------------------------------------------
(* Unwinding.                                                              *)

\* the test comparing the kind of value, not the pointer
InterceptRecovers_AnyWriter(p) == p[1] = "irw"

\* the test of interceptHandler's deferred function: p == irw
InterceptRecovers(p) == p = IrwToken(rid)

\* the deferred function of interceptHandler
InterceptRecover ==
    /\ pc = "interceptDefer"
    /\ panicv' = IF panicv # NoPanic /\ InterceptRecovers(panicv) THEN NoPanic ELSE panicv
    /\ pc' = "logReturn"
    /\ UNCHANGED <<errors, req, rid, conn, lrw, ops, logs, ev, hset, hsent, gz, written, table, sink, pend,
                   cfg, mux, picked>>

\* the test without its upper end
LogRecord_NoUpper(w) ==
    [status |-> w.status, size |-> w.size,
     out |-> IF w.status >= 400 THEN "stderr" ELSE "stdout"]

\* LoggingResponseWriter.log: the record and the stream it goes to
LogRecord(w) ==
    [status |-> w.status, size |-> w.size,
     out |-> IF w.status >= 400 /\ w.status < LogErrorBelow THEN "stderr" ELSE "stdout"]

\* the fields of a log line, in the order of the format string
LogFields == <<"remoteAddr", "t", "localAddr", "requestLine", "status", "size">>

\* the line sent with one Write call per half
LogWrites_Split(rec) ==
    << [out |-> rec.out, fields |-> SubSeq(LogFields, 1, 3)],
       [out |-> rec.out, fields |-> SubSeq(LogFields, 4, 6)] >>

\* the Write calls fmt.Fprintf makes on out: one, with the whole line
LogWrites(rec) == << [out |-> rec.out, fields |-> LogFields] >>

\* whether LogHandler's rw.log(r) runs when h.ServeHTTP ends with panic
\* value p: it is the statement after the call
LogRuns(p) == p = NoPanic

\* where LogHandler returns to: the deferred gz.Close() of GzipHandler if it
\* compresses, otherwise the server
AfterLog == IF gz.active THEN "gzipDefer" ELSE "done"

\* LogHandler, from the end of h.ServeHTTP(rw, r): rw.log formats the record
LogHandlerReturn ==
    /\ pc = "logReturn"
    /\ IF LogRuns(panicv)
       THEN /\ logs' = Append(logs, LogRecord(lrw))
            /\ pend' = LogWrites(LogRecord(lrw))
            /\ pc' = "logWrite"
       ELSE /\ UNCHANGED <<logs, pend>>
            /\ pc' = AfterLog
    /\ UNCHANGED <<errors, req, rid, conn, lrw, panicv, ops, ev, hset, hsent,
                   gz, written, table, sink,
                   cfg, mux, picked>>

\* one Write of rw.log on os.Stdout or os.Stderr
LogWrite ==
    /\ pc = "logWrite"
    /\ pend # <<>>
    /\ sink' = [sink EXCEPT ![Head(pend).out] =
                    Append(@, [owner |-> rid, fields |-> Head(pend).fields])]
    /\ pend' = Tail(pend)
    /\ pc' = IF Tail(pend) = <<>> THEN AfterLog ELSE pc
    /\ UNCHANGED <<errors, req, rid, conn, lrw, panicv, ops, logs, ev, hset,
                   hsent, gz, written, table,
                   cfg, mux, picked>>

\* the records requests served at the same time have written
Others ==
    Cardinality({i \in DOMAIN sink.stdout : sink.stdout[i].owner = 0})
    + Cardinality({i \in DOMAIN sink.stderr : sink.stderr[i].owner = 0})

\* rw.log of a request served at the same time, on the stream this request
\* is writing to, while this request's rw.log is between formatting its line
\* and the end of its writes: its line, in one Write
ConcurrentLog(out) ==
    /\ pc = "logWrite"
    /\ pend # <<>>
    /\ out = Head(pend).out
    /\ Others < MaxOthers
    /\ sink' = [sink EXCEPT ![out] = Append(@, [owner |-> 0, fields |-> LogFields])]
    /\ UNCHANGED <<errors, pc, req, rid, conn, lrw, panicv, ops, logs, ev, hset,
                   hsent, gz, written, table, pend,
                   cfg, mux, picked>>

\* gz.Close() not deferred: the statement after h.ServeHTTP
GzipCloses_NotDeferred(p) == p = NoPanic

\* whether GzipHandler's gz.Close() runs when h.ServeHTTP ends with panic
\* value p: it is deferred
GzipCloses(p) == TRUE

\* GzipHandler, from the end of h.ServeHTTP: the deferred gz.Close()
GzipHandlerReturn ==
    /\ pc = "gzipDefer"
    /\ IF GzipCloses(panicv) THEN Becomes(GzipClose(World)) ELSE Becomes(World)
    /\ pc' = "done"
    /\ UNCHANGED <<errors, req, rid, ops, logs, table, sink, pend,
                   cfg, mux, picked>>

\* the server ends the response the handler chain left, and waits for the
\* next request
Finish ==
    /\ pc = "done"
    /\ pc' = "idle"
    /\ req' = NoRequest
    /\ conn' = NewConn
    /\ lrw' = [status |-> 0, size |-> 0]
    /\ panicv' = NoPanic
    /\ ops' = 0
    /\ logs' = <<>>
    /\ ev' = <<>>
    /\ hset' = NoHeaders
    /\ hsent' = NoHeaders
    /\ gz' = NoGzip
    /\ written' = <<>>
    /\ sink' = NoSink
    /\ UNCHANGED <<errors, rid, table, pend,
                   cfg, mux, picked>>

---------------------------------------------------------------------------

Next ==
    \/ \E s \in Registrable, h \in ErrorHandlers : HandleError(s, h)
    \/ Handle
    \/ Listen
    \/ \E r \in Requests : Accept(r)
    \/ CustomHeadersHandler
    \/ GzipHandler
    \/ LogHandler
    \/ ServeHTTP
    \/ NotFoundHandler
    \/ ServeErrorHandler
    \/ RedirectHandler
    \/ IndexesHandler
    \/ SuppressListingHandler
    \/ SuppressListingRecover
    \/ \E s \in Registrable : CustomWriteHeader(s)
    \/ CustomWrite
    \/ CustomSetHeader
    \/ \E v \in ForeignPanics : CustomPanic(v)
    \/ CustomReturn
    \/ InterceptRecover
    \/ LogHandlerReturn
    \/ LogWrite
    \/ \E out \in {"stdout", "stderr"} : ConcurrentLog(out)
    \/ GzipHandlerReturn
    \/ Finish

Spec == Init /\ [][Next]_vars

---------------------------------------------------------------------------
(* The configuration: config.go.                                           *)

\* serves a configuration may hold
MaxServes == 2
\* redirects a configuration may hold
MaxRedirects == 1

\* Listener: its protocol and its certificate and key files
ListenerOf(protocol, cert) ==
    [Protocol |-> protocol, Addr |-> "", CertFile |-> cert, KeyFile |-> cert]

\* Redirect
RedirectOf(from, to, with) == [From |-> from, To |-> to, With |-> with]

\* os.Stat(name) does not answer that the file does not exist
Exists(name) == name = "present"

\* Listener.sanitise
ListenerSanitise(l) ==
    [l EXCEPT !.Protocol = IF @ = "" THEN "http" ELSE @,
              !.Addr = IF @ = "" THEN ":http" ELSE @]

\* Listener.check
ListenerCheck(l) ==
    IF l.Protocol = "http"
    THEN ~(l.CertFile # "" \/ l.KeyFile # "")
    ELSE IF l.Protocol = "https"
         THEN Exists(l.CertFile) /\ Exists(l.KeyFile)
         ELSE FALSE

\* Serve.sanitise
ServeSanitise(s) == [s EXCEPT !.Path = IF @ = <<>> THEN PRoot ELSE @]

\* Serve.check
ServeCheck(s) ==
    /\ s.Path # <<>>
    /\ ~(s.Error = 0 /\ s.Target = "")
    /\ ~(s.Error # 0 /\ s.Target # "")

\* Redirect.sanitise
RedirectSanitise(r) ==
    [r EXCEPT !.With = IF @ = 0 THEN StatusMovedPermanently ELSE @]

\* Redirect.check: ok is set to false for an empty `from` and for an empty
\* `to`, and the function returns true
RedirectCheck(r) ==
    LET ok == r.From # <<>> /\ r.To # ""
    IN  TRUE

\* ServerConfig.sanitise
ServerConfigSanitise(c) ==
    [Listeners |-> [i \in DOMAIN c.Listeners |-> ListenerSanitise(c.Listeners[i])],
     Serves |-> [i \in DOMAIN c.Serves |-> ServeSanitise(c.Serves[i])],
     Redirects |-> [i \in DOMAIN c.Redirects |-> RedirectSanitise(c.Redirects[i])]]

\* ServerConfig.check
ServerConfigCheck(c) ==
    /\ Len(c.Listeners) # 0
    /\ \A i \in DOMAIN c.Listeners : ListenerCheck(c.Listeners[i])
    /\ Len(c.Serves) # 0
    /\ \A i \in DOMAIN c.Serves : ServeCheck(c.Serves[i])
    /\ \A i \in DOMAIN c.Redirects : RedirectCheck(c.Redirects[i])

\* the sequences over S of at most n elements
SeqUpTo(S, n) == UNION { [1..k -> S] : k \in 0..n }

\* the configurations main may read
ConfigListeners ==
    { <<>>, <<ListenerOf("", "")>>, <<ListenerOf("https", "missing")>> }

ConfigServes ==
    SeqUpTo({ ServeOf(<<>>, "dir", 0, FALSE),
              ServeOf(PFiles, "dir", 0, FALSE),
              ServeOf(PSecret, "", StatusForbidden, FALSE),
              ServeOf(PFiles, "", 0, TRUE),
              ServeOf(PSecret, "dir", StatusNotFound, FALSE) }, MaxServes)

ConfigRedirects ==
    SeqUpTo({ RedirectOf(f, to, 0) : f \in {<<>>, POld}, to \in {"", "/new"} },
            MaxRedirects)

Configs ==
    { [Listeners |-> l, Serves |-> s, Redirects |-> r] :
        l \in ConfigListeners, s \in ConfigServes, r \in ConfigRedirects }

---------------------------------------------------------------------------
(* main, from the configuration to the dispatch of a request.              *)

\* the handler main registers for serve i, and for redirect i
ServeEntry(i) == [kind |-> "serve", i |-> i]
RedirectEntry(i) == [kind |-> "redirect", i |-> i]

\* ServeMux.Handle(pattern, h): whether it panics, for an empty pattern and
\* for a pattern registered before
HandlePanics(m, pattern) ==
    pattern = <<>> \/ \E e \in m : e.pattern = pattern

\* strings.HasPrefix(path, pattern)
HasPrefix(path, pattern) ==
    Len(path) >= Len(pattern) /\ SubSeq(path, 1, Len(pattern)) = pattern

\* the patterns of m that end in "/" and begin path
PrefixEntries(m, path) ==
    { e \in m : e.pattern[Len(e.pattern)] = "/" /\ HasPrefix(path, e.pattern) }

\* match trying the patterns that end in "/" before the exact one, the
\* shortest first
ServeMuxMatch_PrefixFirst(m, path) ==
    IF PrefixEntries(m, path) # {}
    THEN CHOOSE e \in PrefixEntries(m, path) :
            \A f \in PrefixEntries(m, path) : Len(e.pattern) <= Len(f.pattern)
    ELSE IF \E e \in m : e.pattern = path
         THEN CHOOSE e \in m : e.pattern = path
         ELSE NoEntry

\* ServeMux.match(path), which s.Handler(r) dispatches with: the entry whose
\* pattern is the path, otherwise the longest pattern ending in "/" that
\* begins the path, otherwise none (the NotFoundHandler)
ServeMuxMatch(m, path) ==
    IF \E e \in m : e.pattern = path
    THEN CHOOSE e \in m : e.pattern = path
    ELSE IF PrefixEntries(m, path) # {}
         THEN CHOOSE e \in PrefixEntries(m, path) :
                 \A f \in PrefixEntries(m, path) : Len(f.pattern) <= Len(e.pattern)
         ELSE NoEntry

\* the paths requested
Paths == {PRoot, PFiles, PSecret, POther, PBelow, POld}

\* the serving variables, which main leaves as they are
serving == <<errors, req, rid, conn, lrw, panicv, ops, logs, ev, hset, hsent,
             gz, written, table, sink, pend>>

MainInit ==
    /\ Fresh
    /\ pc = "main"
    /\ cfg \in Configs

\* main: cfg.sanitise()
MainSanitise ==
    /\ pc = "main"
    /\ cfg' = ServerConfigSanitise(cfg)
    /\ pc' = "sanitised"
    /\ UNCHANGED <<serving, mux, picked>>

\* main: if !cfg.check() { log.Fatalln("Invalid config.") }
MainCheck ==
    /\ pc = "sanitised"
    /\ pc' = IF ServerConfigCheck(cfg) THEN "checked" ELSE "fatal"
    /\ UNCHANGED <<serving, cfg, mux, picked>>

\* the serves and the redirects registered so far
Handled(kind) == Cardinality({ e \in mux : e.h.kind = kind })

\* main: http.Handle(serve.Path, ...) for the next serve
MainHandleServe ==
    /\ pc = "checked"
    /\ Handled("serve") < Len(cfg.Serves)
    /\ LET i == Handled("serve") + 1
           pattern == cfg.Serves[i].Path
       IN  IF HandlePanics(mux, pattern)
           THEN pc' = "panic" /\ UNCHANGED mux
           ELSE /\ mux' = mux \cup {[pattern |-> pattern, h |-> ServeEntry(i)]}
                /\ UNCHANGED pc
    /\ UNCHANGED <<serving, cfg, picked>>

\* main: http.Handle(redirect.From, ...) for the next redirect
MainHandleRedirect ==
    /\ pc = "checked"
    /\ Handled("serve") = Len(cfg.Serves)
    /\ Handled("redirect") < Len(cfg.Redirects)
    /\ LET i == Handled("redirect") + 1
           pattern == cfg.Redirects[i].From
       IN  IF HandlePanics(mux, pattern)
           THEN pc' = "panic" /\ UNCHANGED mux
           ELSE /\ mux' = mux \cup {[pattern |-> pattern, h |-> RedirectEntry(i)]}
                /\ UNCHANGED pc
    /\ UNCHANGED <<serving, cfg, picked>>

\* main: the listeners start
MainListen ==
    /\ pc = "checked"
    /\ Handled("serve") = Len(cfg.Serves)
    /\ Handled("redirect") = Len(cfg.Redirects)
    /\ pc' = "listening"
    /\ UNCHANGED <<serving, cfg, mux, picked>>

\* ServeHTTP: h, _ := s.Handler(r) for a request of this path
Dispatch(path) ==
    /\ pc = "listening"
    /\ picked' = [path |-> path, e |-> ServeMuxMatch(mux, path)]
    /\ pc' = "dispatched"
    /\ UNCHANGED <<serving, cfg, mux>>

MainNext ==
    \/ MainSanitise
    \/ MainCheck
    \/ MainHandleServe
    \/ MainHandleRedirect
    \/ MainListen
    \/ \E path \in Paths : Dispatch(path)

SpecMain == MainInit /\ [][MainNext]_vars

---------------------------------------------------------------------------
(* ErrorHandler and ErrorHandlingResponseWriter of goserve.go: a request   *)
(* served by ErrorHandler(handler, errorHandlers), the wrapped handler     *)
(* writing to the ErrorHandlingResponseWriter around the connection.       *)

\* panic(h), h the ErrorHandlingResponseWriter of invocation n
EhrwToken(n) == <<"ehrw", n>>

\* panic(n), n an int
IntPanic(n) == <<"int", n>>

\* what the wrapped handler may panic with
WrappedPanics == {Fault, EhrwToken(0), IntPanic(1), IntPanic(2)}

\* the statuses the configuration may name under `errors`
ErrorStatuses == {StatusForbidden, StatusNotFound}

\* Error.handler of goserve.go, as the entry of errorHandlers
OldErrorHandler(status) == <<OpWriteHeader(status), OpWrite("page")>>

\* Error.handler of goserve.go on the connection: the headers cleared, the
\* status written, the target served with WriteHeader ignored
OldErrorServe(W, status) ==
    LET W1 == [W EXCEPT !.conn.header = NoHeaders, !.hset = NoHeaders]
        W2 == ConnWriteHeader(W1, status)
    IN  ConnWrite(HeaderSet(W2, "Content-Type", "text/html"),
                  Chunk("substitute", "page"))

\* http.Error(w, text, code) on the connection
HttpErrorConn(W, text, code, by) ==
    LET W1 == HeaderSet(W, "Content-Type", "text/plain; charset=utf-8")
        W2 == HeaderSet(W1, "X-Content-Type-Options", "nosniff")
    IN  ConnWrite(ConnWriteHeader(W2, code), Chunk(by, text))

\* ErrorHandlingResponseWriter.WriteHeader
EhrwWriteHeader(W, status) ==
    IF errors[status] # NoHandler
    THEN [OldErrorServe(W, status) EXCEPT !.panicv = EhrwToken(rid)]
    ELSE ConnWriteHeader(W, status)

ErrorHandlerInit ==
    /\ Fresh
    /\ pc = "main"
    /\ cfg = NoConfig

\* main: errorHandlers[e.Status] = e.handler() for the errors configured
MainErrorHandlers(S) ==
    /\ pc = "main"
    /\ errors' = [s \in Statuses |->
                    IF s \in S THEN OldErrorHandler(s) ELSE NoHandler]
    /\ pc' = "idle"
    /\ UNCHANGED <<req, rid, conn, lrw, panicv, ops, logs, ev, hset, hsent, gz,
                   written, table, sink, pend, cfg, mux, picked>>

\* ErrorHandler, up to its call of handler.ServeHTTP(ehrw, r)
ErrorHandlerServe ==
    /\ pc = "idle"
    /\ rid < MaxRequests
    /\ rid' = rid + 1
    /\ pc' = "wrapped"
    /\ UNCHANGED <<errors, req, conn, lrw, panicv, ops, logs, ev, hset, hsent,
                   gz, written, table, sink, pend, cfg, mux, picked>>

\* the wrapped handler: any calls on its writer, until it returns or panics
WrappedWriteHeader(s) ==
    /\ pc = "wrapped"
    /\ ops < MaxOps
    /\ ops' = ops + 1
    /\ LET W1 == EhrwWriteHeader(World, s)
       IN  /\ Becomes(W1)
           /\ pc' = IF W1.panicv # NoPanic THEN "ehDefer" ELSE "wrapped"
    /\ UNCHANGED <<errors, req, rid, logs, table, sink, pend, cfg, mux, picked>>

WrappedWrite ==
    /\ pc = "wrapped"
    /\ ops < MaxOps
    /\ ops' = ops + 1
    /\ Becomes(ConnWrite(World, Chunk("routed", "body")))
    /\ UNCHANGED <<errors, pc, req, rid, logs, table, sink, pend, cfg, mux,
                   picked>>

WrappedPanic(v) ==
    /\ pc = "wrapped"
    /\ panicv' = v
    /\ pc' = "ehDefer"
    /\ UNCHANGED <<errors, req, rid, conn, lrw, ops, logs, ev, hset, hsent, gz,
                   written, table, sink, pend, cfg, mux, picked>>

WrappedReturn ==
    /\ pc = "wrapped"
    /\ pc' = "ehDefer"
    /\ UNCHANGED <<errors, req, rid, conn, lrw, panicv, ops, logs, ev, hset,
                   hsent, gz, written, table, sink, pend, cfg, mux, picked>>

\* the deferred function of ErrorHandler
ErrorHandlerRecover ==
    /\ pc = "ehDefer"
    /\ IF panicv = NoPanic
       THEN Becomes(World)
       ELSE IF panicv = EhrwToken(rid)
            THEN Becomes([World EXCEPT !.panicv = NoPanic])
            ELSE IF panicv = IntPanic(1)
                 THEN Becomes(HttpErrorConn([World EXCEPT !.panicv = NoPanic],
                                            "way", StatusNotFound, "recover"))
                 ELSE Becomes(World)
    /\ pc' = "done"
    /\ UNCHANGED <<errors, req, rid, ops, logs, table, sink, pend, cfg, mux,
                   picked>>

ErrorHandlerNext ==
    \/ \E S \in SUBSET ErrorStatuses : MainErrorHandlers(S)
    \/ ErrorHandlerServe
    \/ \E s \in {StatusOK} \cup ErrorStatuses : WrappedWriteHeader(s)
    \/ WrappedWrite
    \/ \E v \in WrappedPanics : WrappedPanic(v)
    \/ WrappedReturn
    \/ ErrorHandlerRecover
    \/ Finish

SpecErrorHandler == ErrorHandlerInit /\ [][ErrorHandlerNext]_vars

---------------------------------------------------------------------------
(* What the client and the log see.                                        *)

\* the status the client receives once the chain has returned: the one
\* committed, or the 200 the server commits for a handler that wrote nothing
ClientStatus == IF conn.wroteHeader THEN conn.status ELSE StatusOK

\* who wrote the chunks of the body the chain wrote
Producers == { written[i].by : i \in DOMAIN written }

\* the calls of InterceptResponseWriter.WriteHeader that were intercepted
Interceptions == { i \in DOMAIN ev : ev[i].kind # "pass" }

LastEvent == ev[Len(ev)]

\* the writes of this request's rw.log a stream has received
Own(stream) == {i \in DOMAIN stream : stream[i].owner = rid}

\* a stream as the sequence of fields it received, each with its owner
RECURSIVE Flat(_)
Flat(stream) ==
    IF stream = <<>>
    THEN <<>>
    ELSE [i \in DOMAIN Head(stream).fields |->
             [owner |-> Head(stream).owner, field |-> Head(stream).fields[i]]]
         \o Flat(Tail(stream))

\* the bytes of a sequence of chunks
RECURSIVE Bytes(_)
Bytes(chunks) ==
    IF chunks = <<>> THEN 0 ELSE Size(Head(chunks).data) + Bytes(Tail(chunks))

\* what the writer under the LoggingResponseWriter took of the chunks written
\* to it: the chunks the compressor holds; without compression the chunks
\* that reached the client and of each failed Write the part that went out
Reported ==
    IF gz.active
    THEN Bytes(gz.buf)
    ELSE Bytes(conn.body) + (Len(written) - Len(conn.body)) * req.partial

\* whether a pattern matches a path: it is the path, or it ends in "/" and
\* begins the path
Matches(pattern, path) ==
    \/ pattern = path
    \/ pattern # <<>> /\ pattern[Len(pattern)] = "/" /\ HasPrefix(path, pattern)

\* whether a configuration holds a redirect with an empty `from` or `to`
HasEmptyRedirect(c) ==
    \E i \in DOMAIN c.Redirects :
        c.Redirects[i].From = <<>> \/ c.Redirects[i].To = ""

\* whether the client expresses gzip support: Accept-Encoding lists gzip and
\* does not refuse it with q=0
ExpressesGzipSupport(ae) ==
    Contains(ae, AeGzip) /\ ~Contains(ae, <<";", "q", "=", "0">>)

---------------------------------------------------------------------------
(* C1.  Claim: for every status s >= 400 with a handler H registered, when *)
(* the routed handler commits s through InterceptResponseWriter.WriteHeader *)
(* the client receives H's body with status exactly s, whatever H does,    *)
(* also when H only calls Write.  Stated here for a response on which      *)
(* nothing was committed before that call.                                 *)
C1_SubstituteStatusPinned ==
    \A i \in DOMAIN ev :
        (ev[i].kind = "handler" /\ ev[i].status >= 400 /\ ~ev[i].committed)
        => /\ conn.wroteHeader
           /\ conn.status = ev[i].status
           /\ Producers \subseteq {"substitute"}

---------------------------------------------------------------------------
(* C2.  Claim: for every status s < 400 committed through                  *)
(* InterceptResponseWriter.WriteHeader interception never triggers,        *)
(* whatever the registry holds, a handler for s included.                  *)
C2_NoInterceptionBelow400 ==
    \A i \in DOMAIN ev : ev[i].status < 400 => ev[i].kind = "pass"

(* C2, amended: for every status s < 400 that has no registered handler,   *)
(* a call InterceptResponseWriter.WriteHeader(s) is not intercepted: no    *)
(* substitute handler runs, no token is raised, the wrapped writer gets    *)
(* WriteHeader(s) and the only bytes that follow are the routed handler's. *)
C2_PassStep ==
    (/\ Len(ev') = Len(ev) + 1
     /\ ev'[Len(ev')].status < 400
     /\ errors[ev'[Len(ev')].status] = NoHandler)
    => /\ ev'[Len(ev')].kind = "pass"
       /\ panicv' = NoPanic
       /\ conn'.wroteHeader
       /\ conn'.status = IF conn.wroteHeader THEN conn.status ELSE ev'[Len(ev')].status
       /\ lrw'.status = ev'[Len(ev')].status
       /\ \A j \in DOMAIN written' :
             j > Len(written) => written'[j].by = "routed"

C2_UnregisteredBelow400Passes == [][C2_PassStep]_vars

\* a redirect with no handler registered for 301 reached the client as it was
C2_Witness ==
    /\ pc = "done"
    /\ req.route = "redirect"
    /\ errors[StatusMovedPermanently] = NoHandler
    /\ conn.status = StatusMovedPermanently
    /\ Producers = {"routed"}
    /\ panicv = NoPanic

---------------------------------------------------------------------------
(* C3.  Claim: a request served by SuppressListingHandler whose path is a  *)
(* directory without index document gets status 403 and never a listing,   *)
(* whether or not a 404 handler is registered, and the 404 handler is not  *)
(* invoked for it.                                                         *)
C3_SuppressedListingIs403 ==
    (/\ pc = "done"
     /\ req.route = "suppress"
     /\ req.entry = "dirNoIndex"
     /\ req.fault = NoPanic)
    => /\ conn.wroteHeader
       /\ conn.status = StatusForbidden
       /\ \A i \in DOMAIN written : written[i].data # "listing"
       /\ \A i \in DOMAIN ev : ev[i].status # StatusNotFound

---------------------------------------------------------------------------
(* C4.  Claim: a request served by SuppressListingHandler that names a     *)
(* missing file follows the ordinary 404 path: 404 is committed through    *)
(* the InterceptResponseWriter and the response does not become a 403.     *)
C4_MissingFileIs404 ==
    (/\ pc = "done"
     /\ req.route = "suppress"
     /\ req.entry = "missing"
     /\ req.fault = NoPanic)
    => /\ \E i \in DOMAIN ev : ev[i].status = StatusNotFound
       /\ \A i \in DOMAIN ev : ev[i].status # StatusForbidden
       /\ ClientStatus # StatusForbidden

---------------------------------------------------------------------------
(* C5.  Claim: every request that enters LogHandler is logged exactly once *)
(* after the wrapped chain has finished, on every path, a fault of the     *)
(* wrapped handler included.                                               *)
C5_LoggedExactlyOnce == pc = "done" => Len(logs) = 1

---------------------------------------------------------------------------
(* C6.  Claim: the status of the log record equals the status the client   *)
(* received: 200 without WriteHeader, the pinned status after an           *)
(* interception, the first committed status when WriteHeader is called     *)
(* again or after a Write.                                                 *)
C6_LoggedStatusIsClientStatus ==
    (pc = "done" /\ Len(logs) = 1) => logs[1].status = ClientStatus

---------------------------------------------------------------------------
(* C7.  Claim: when a status s >= 400 without registered handler is        *)
(* committed through InterceptResponseWriter.WriteHeader, the generic      *)
(* text body is written and the outcome is Proceed: no short-circuit is    *)
(* raised and the calling handler continues.                               *)
C7_GenericProceeds ==
    (/\ pc \in {"suppressDefer", "interceptDefer"}
     /\ ev # <<>>
     /\ LastEvent.kind = "generic")
    => panicv # IrwToken(rid)

(* C7, amended: when a status s >= 400 without registered handler is       *)
(* committed through InterceptResponseWriter.WriteHeader, the generic text *)
(* body naming s is written and the outcome is Intercepted: the writer's   *)
(* token is raised, the calling handler does not continue after            *)
(* WriteHeader (it makes no further call and writes no byte), and          *)
(* interceptHandler absorbs the token.                                     *)
C7_GenericShortCircuits ==
    \A i \in DOMAIN ev :
        (ev[i].status >= 400 /\ errors[ev[i].status] = NoHandler)
        => /\ ev[i].kind = "generic"
           /\ i = Len(ev)
           /\ Len(written) = ev[i].before + 1
           /\ written[Len(written)] = Chunk("generic", StatusText(ev[i].status))
           /\ pc \in {"suppressDefer", "interceptDefer"} => panicv = IrwToken(rid)
           /\ pc \in {"logReturn", "done"} => panicv = NoPanic

\* a serve with `error: 403` and no 403 handler: the generic text, 403
C7_Witness ==
    /\ pc = "done"
    /\ req.route = "error"
    /\ req.code = StatusForbidden
    /\ errors[StatusForbidden] = NoHandler
    /\ conn.status = StatusForbidden
    /\ conn.body = <<Chunk("generic", "Forbidden")>>
    /\ Len(logs) = 1

---------------------------------------------------------------------------
(* C8.  Claim: the body the client receives comes from exactly one         *)
(* producer and is never the concatenation of two: at most one substitute  *)
(* response per request, no byte of the routed handler after an            *)
(* interception, no substitute body appended to bytes the routed handler   *)
(* wrote before committing an error status.                                *)
C8_SingleProducer ==
    pc = "done"
    => /\ Cardinality(Producers) <= 1
       /\ Cardinality(Interceptions) <= 1

---------------------------------------------------------------------------
(* C9.  The recover points of interceptHandler and SuppressListingHandler  *)
(* absorb only the token of their own invocation: any other panic value,   *)
(* the other layer's token and unrelated faults included, is raised again  *)
(* unchanged and that layer writes no response for it.                     *)
C9_InterceptStep ==
    (pc = "interceptDefer" /\ panicv # NoPanic)
    => /\ panicv' = IF panicv = IrwToken(rid) THEN NoPanic ELSE panicv
       /\ conn' = conn
       /\ lrw' = lrw

C9_SuppressStep ==
    (pc = "suppressDefer" /\ panicv # NoPanic)
    => IF panicv = DirToken(rid)
       THEN /\ panicv' # DirToken(rid)
            /\ Len(ev') = Len(ev) + 1
            /\ ev'[Len(ev')].status = StatusForbidden
       ELSE /\ panicv' = panicv
            /\ conn' = conn
            /\ lrw' = lrw
            /\ ev' = ev

C9_RecoverOnlyOwnToken == [][C9_InterceptStep /\ C9_SuppressStep]_vars

\* another invocation's directory token went through both recover points
\* and left the chain as it was raised, with nothing written
C9_Witness ==
    /\ pc = "logReturn"
    /\ req.route = "suppress"
    /\ panicv = DirToken(0)
    /\ ~conn.wroteHeader
    /\ conn.body = <<>>

---------------------------------------------------------------------------
(* C10.  For every header configured on CustomHeadersHandler, a value the  *)
(* wrapped handler sets for the same name is never overwritten by the      *)
(* configured default: the default is applied only where the response      *)
(* carries no value for the name, and the committed response carries the   *)
(* handler's value.                                                        *)
C10_DefaultStep ==
    pc \in {"listener", "serve"}
    => \A k \in HeaderNames :
          /\ conn.header[k] # "" => conn'.header[k] = conn.header[k]
          /\ conn'.header[k] # conn.header[k] =>
                \E e \in (IF pc = "listener" THEN req.lhdr ELSE req.shdr) :
                    Canon(e[1]) = k /\ conn'.header[k] = e[2]

C10_HandlerValueKept ==
    \A k \in HeaderNames :
        /\ hset[k] # "" => conn.header[k] = hset[k]
        /\ (conn.wroteHeader /\ hsent[k] # "") => conn.sent[k] = hsent[k]

C10_HandlerHeadersWin == []C10_HandlerValueKept /\ [][C10_DefaultStep]_vars

\* listener and serve both configure Cache-Control, the handler set its own
\* value, and that is the one committed
C10_Witness ==
    /\ pc = "done"
    /\ req.route = "custom"
    /\ req.lhdr = HeadersB
    /\ req.shdr = HeadersA
    /\ conn.wroteHeader
    /\ conn.sent["Cache-Control"] = "handler"
    /\ conn.sent["Content-Type"] = "cfg-ct"

---------------------------------------------------------------------------
(* C11.  Claim: for every request whose Accept-Encoding does not advertise *)
(* gzip, GzipHandler(h) delivers what h alone delivers: it adds no header, *)
(* wraps no writer and transforms no byte.                                 *)
C11_NoGzipAdvertisedPassThrough ==
    (req.gzip /\ ~ExpressesGzipSupport(req.ae))
    => /\ ~gz.active
       /\ conn.header["Content-Encoding"] = ""
       /\ conn.body = SubSeq(written, 1, Len(conn.body))

---------------------------------------------------------------------------
(* C12.  When GzipHandler compresses, the gzip stream it opened is closed  *)
(* exactly once per request, when the wrapped chain has ended and on every *)
(* way it ends: a normal return, a short-circuit after an interception, a  *)
(* failed write to the transport, a panic leaving the wrapped handler.     *)
C12_GzipClosedOnce ==
    gz.active
    => /\ pc = "done" => gz.closes = 1
       /\ pc # "done" => gz.closes = 0

\* an unrelated fault left the chain through GzipHandler, and the stream
\* was closed
C12_Witness ==
    /\ pc = "done"
    /\ gz.active
    /\ panicv = Fault
    /\ gz.closes = 1
    /\ logs = <<>>

---------------------------------------------------------------------------
---------------------------------------------------------------------------
(* C14.  A request whose request-target is exactly "*" gets status 400     *)
(* from StaticServeMux.ServeHTTP with no further dispatch: no route        *)
(* handler and no registered error handler runs, not even one registered   *)
(* for 400, and Connection: close is set exactly when the protocol is      *)
(* HTTP/1.1 or later.                                                      *)
C14_StarIs400 ==
    (req.uri = "*" /\ pc \in {"logReturn", "logWrite", "gzipDefer", "done"})
    => /\ conn.wroteHeader
       /\ conn.status = StatusBadRequest
       /\ lrw.status = StatusBadRequest
       /\ ev = <<>>
       /\ written = <<>>
       /\ panicv = NoPanic
       /\ (conn.sent["Connection"] = "close") <=> req.proto11

\* "*" over HTTP/1.1 with a handler registered for 400: the bare 400
C14_Witness ==
    /\ pc = "done"
    /\ req.uri = "*"
    /\ req.proto11
    /\ errors[StatusBadRequest] # NoHandler
    /\ conn.status = StatusBadRequest
    /\ conn.sent["Connection"] = "close"
    /\ conn.body = <<>>

---------------------------------------------------------------------------
(* C15.  Claim: a request whose path matches no route gets status 404 from *)
(* StaticServeMux, and that 404 is intercepted: with a 404 handler         *)
(* registered the client receives its body with status 404, otherwise the  *)
(* generic text.                                                           *)
C15_UnmatchedIs404 ==
    (pc = "done" /\ req.route = "none" /\ req.uri # "*")
    => /\ Len(ev) = 1
       /\ ev[1].status = StatusNotFound
       /\ ClientStatus = StatusNotFound
       /\ IF errors[StatusNotFound] # NoHandler
          THEN ev[1].kind = "handler" /\ Producers \subseteq {"substitute"}
          ELSE written = <<Chunk("generic", "Not Found")>>

---------------------------------------------------------------------------
(* C16.  HandleError registers a status at most once: a call for a status  *)
(* that already has a handler faults at configuration time and leaves the  *)
(* registry unchanged; the handler registered first stays in effect.       *)
C16_DuplicateFaults ==
    pc = "config"
    => \A s \in Registered, h \in ErrorHandlers :
          /\ ENABLED (HandleError(s, h) /\ pc' = "configPanic" /\ errors' = errors)
          /\ ~ENABLED (HandleError(s, h) /\ (pc' # "configPanic" \/ errors' # errors))

C16_FirstStays ==
    \A s \in Statuses : errors[s] # NoHandler => errors'[s] = errors[s]

C16_RegisteredAtMostOnce == []C16_DuplicateFaults /\ [][C16_FirstStays]_vars

\* the second registration of a status has faulted
C16_Witness ==
    /\ pc = "configPanic"
    /\ Registered # {}

---------------------------------------------------------------------------
(* C17.  A status the substitute handler commits, one >= 400 that has a    *)
(* registered handler included, is pinned to the intercepted status and is *)
(* not itself intercepted: no second substitute handler runs and no second *)
(* token is raised in the request.                                         *)
C17_InterceptStep ==
    (Len(ev') = Len(ev) + 1 /\ ev'[Len(ev')].kind = "handler")
    => /\ panicv' = IrwToken(rid)
       /\ (\E i \in DOMAIN errors[ev'[Len(ev')].status] :
               errors[ev'[Len(ev')].status][i].op = "WriteHeader")
          => /\ lrw'.status = ev'[Len(ev')].status
             /\ conn'.wroteHeader
             /\ ~conn.wroteHeader => conn'.status = ev'[Len(ev')].status

C17_OneInterception ==
    /\ Cardinality(Interceptions) <= 1
    /\ Len(ev') <= Len(ev) + 1

C17_NoRecursiveInterception == [][C17_InterceptStep /\ C17_OneInterception]_vars

\* the page of the 404 handler is missing: the handler commits 404, a status
\* with a registered handler, and is not intercepted again
C17_Witness ==
    /\ pc = "done"
    /\ errors[StatusNotFound] = ErrorHandler(FALSE)
    /\ Len(ev) = 1
    /\ ev[1].kind = "handler"
    /\ ev[1].status = StatusNotFound
    /\ conn.status = StatusNotFound
    /\ written = <<Chunk("substitute", "404 page not found")>>

---------------------------------------------------------------------------
(* C18.  The log record of a request goes to os.Stderr exactly when its    *)
(* recorded status is a 4xx or 5xx status, and to os.Stdout for every      *)
(* other status.                                                           *)
C18_LogSinkByStatus ==
    \A i \in DOMAIN logs :
        /\ logs[i].out = (IF logs[i].status \in 400..599 THEN "stderr" ELSE "stdout")
        /\ Own(sink[IF logs[i].out = "stderr" THEN "stdout" ELSE "stderr"]) = {}
        /\ pc \in {"gzipDefer", "done"} => Cardinality(Own(sink[logs[i].out])) = 1

\* a serve with `error: 599`: the record of the last 5xx status is on stderr
C18_Witness ==
    /\ pc = "done"
    /\ Len(logs) = 1
    /\ logs[1].status = LogErrorBelow - 1
    /\ Own(sink.stderr) # {}

---------------------------------------------------------------------------
(* C19.  Nothing done while a request is handled (dispatch, commit,        *)
(* interception, substitute handler, suppressed listing, logging) changes  *)
(* the error registry or the dispatch table: both stay as they were when   *)
(* serving began, whatever the requests served at the same time do.        *)
C19_ServingStep ==
    pc # "config" => (errors' = errors /\ table' = table)

---------------------------------------------------------------------------
(* C20.  Each log record reaches its stream in one write: whatever the     *)
(* requests served at the same time log, a stream holds a sequence of      *)
(* whole records, one per request, never a record split by or merged with  *)
(* the record of another request.                                          *)
C20_WholeRecords ==
    \A out \in {"stdout", "stderr"} :
        LET f == Flat(sink[out])
            n == Len(LogFields)
        IN  /\ \A k \in DOMAIN f :
                  /\ f[k].field = LogFields[((k - 1) % n) + 1]
                  /\ f[k].owner = f[k - ((k - 1) % n)].owner
            /\ pc \in {"gzipDefer", "done"} => Len(f) % n = 0
            /\ Cardinality({k \in DOMAIN f : f[k].owner = rid}) <= n * Len(logs)

\* this request's record and another request's record, whole, on stderr
C20_Witness ==
    /\ pc = "done"
    /\ Len(sink.stderr) = 2
    /\ Own(sink.stderr) # {}
    /\ Others = 1

---------------------------------------------------------------------------
(* C21.  Claim: for a serve whose configuration sets no listing option, a  *)
(* request for a directory that has index.html is answered with that file  *)
(* and a request for a directory without index.html with a listing of the  *)
(* directory; 403 Forbidden is returned only when listing prevention is    *)
(* explicitly configured on the serve.  Stated here for a registry without *)
(* a handler for 200.                                                      *)
C21_DefaultServeLists ==
    (/\ pc = "done"
     /\ errors[StatusOK] = NoHandler
     /\ req.route = ServeHandler(DefaultServe)
     /\ req.fault = NoPanic
     /\ req.entry \in {"dirIndex", "dirNoIndex"})
    => /\ ClientStatus # StatusForbidden
       /\ req.entry = "dirIndex" => written = <<Chunk("routed", "index")>>
       /\ req.entry = "dirNoIndex" => written = <<Chunk("routed", "listing")>>

---------------------------------------------------------------------------
(* C22.  Dispatch picks the longest registered pattern that matches the    *)
(* request path, and a pattern that is the path outranks a pattern that    *)
(* begins it: with handlers for /files/ and /files/secret, /files/secret   *)
(* goes to the handler of /files/secret and /files/other to the handler of *)
(* /files/.  A path no pattern matches gets no entry.                      *)
C22_LongestPatternWins ==
    pc = "dispatched"
    => LET M == { e \in mux : Matches(e.pattern, picked.path) }
       IN  /\ M = {} => picked.e = NoEntry
           /\ M # {} => /\ picked.e \in M
                        /\ \A f \in M : Len(f.pattern) <= Len(picked.e.pattern)
           /\ (\E e \in mux : e.pattern = picked.path)
                 => picked.e.pattern = picked.path
           /\ {PFiles, PSecret} \subseteq { e.pattern : e \in mux }
                 => /\ picked.path = PSecret => picked.e.pattern = PSecret
                    /\ picked.path = POther => picked.e.pattern = PFiles

\* /files/ and /files/secret are both registered and /files/secret went to
\* the serve registered for it
C22_Witness ==
    /\ pc = "dispatched"
    /\ {PFiles, PSecret} \subseteq { e.pattern : e \in mux }
    /\ picked.path = PSecret
    /\ picked.e = [pattern |-> PSecret, h |-> ServeEntry(2)]
    /\ cfg.Serves[2].Path = PSecret

---------------------------------------------------------------------------
(* C23.  Claim: when SuppressListingHandler runs under StaticServeMux and  *)
(* a listing is suppressed, the 403 it commits from its deferred recover   *)
(* is intercepted exactly once: with a 403 handler registered the client   *)
(* gets that handler's body with status 403, otherwise the generic text;   *)
(* the token raised inside the deferred function reaches interceptHandler  *)
(* and is absorbed there, and SuppressListingHandler writes nothing after  *)
(* it.                                                                     *)
C23_SuppressedInterceptedOnce ==
    (/\ req.route = "suppress"
     /\ req.entry = "dirNoIndex"
     /\ req.fault = NoPanic
     /\ pc \in {"interceptDefer", "logReturn", "logWrite", "gzipDefer", "done"})
    => /\ Len(ev) = 1
       /\ ev[1].status = StatusForbidden
       /\ pc = "interceptDefer" => panicv = IrwToken(rid)
       /\ pc # "interceptDefer" => panicv = NoPanic
       /\ Producers \cap {"suppress", "routed"} = {}
       /\ pc = "done" => ClientStatus = StatusForbidden
       /\ IF errors[StatusForbidden] # NoHandler
          THEN ev[1].kind = "handler" /\ Producers \subseteq {"substitute"}
          ELSE ev[1].kind = "generic"
               /\ written = <<Chunk("generic", StatusText(StatusForbidden))>>

---------------------------------------------------------------------------
(* C24.  Claim: ErrorHandler of goserve.go propagates every fault of the   *)
(* wrapped handler unmodified: for every panic value other than the        *)
(* ErrorHandlingResponseWriter of its own invocation it raises the same    *)
(* value again and writes no response, so a fault is never reported to the *)
(* client as a clean 404 or 403.                                           *)
C24_FaultStep ==
    (pc = "ehDefer" /\ panicv # NoPanic /\ panicv # EhrwToken(rid))
    => /\ panicv' = panicv
       /\ conn' = conn

C24_FaultsPropagate == [][C24_FaultStep]_vars

---------------------------------------------------------------------------
(* C25.  The byte count of a request's log record is the sum of the counts *)
(* the writer under the LoggingResponseWriter returned from its Write      *)
(* calls, the partial count of a Write that failed with a transport error  *)
(* included; after such a failure the record is still emitted, with the    *)
(* status and the byte count observed so far.                              *)
C25_LoggedSizeIsReported ==
    /\ lrw.size = Reported
    /\ (pc \in {"logWrite", "gzipDefer", "done"} /\ panicv = NoPanic)
          => logs = <<LogRecord([status |-> lrw.status, size |-> Reported])>>

\* the client went away during the write of the generic 404 text, of which
\* two bytes had gone out: the record says 404 and 2
C25_Witness ==
    /\ pc = "done"
    /\ conn.failed
    /\ req.partial = 2
    /\ written = <<Chunk("generic", "Not Found")>>
    /\ conn.body = <<>>
    /\ logs = <<[status |-> StatusNotFound, size |-> 2, out |-> "stderr"]>>

---------------------------------------------------------------------------
(* C26.  When compression is active the Content-Type of the response is    *)
(* decided at most once per request, at the first Write: if none is set at *)
(* that moment it is detected from that first chunk of uncompressed bytes, *)
(* a Content-Type that is set is left as it is, and no later Write changes *)
(* the Content-Type.                                                       *)
C26_ContentTypeDecidedOnce ==
    gz.active
    => /\ Len(gz.types) = Len(written)
       /\ gz.gotContentType <=> written # <<>>
       /\ \A i \in DOMAIN gz.types :
             gz.types[i].after =
                IF i = 1 /\ gz.types[i].before = ""
                THEN DetectContentType(written[1].data)
                ELSE gz.types[i].before

\* a handler wrote twice without setting a Content-Type: the first Write
\* detected it, the second left it
C26_Witness ==
    /\ pc = "done"
    /\ gz.active
    /\ req.route = "custom"
    /\ Len(written) = 2
    /\ gz.types[1] = [before |-> "", after |-> DetectContentType("body")]
    /\ gz.types[2] = [before |-> DetectContentType("body"),
                      after |-> DetectContentType("body")]

---------------------------------------------------------------------------
(* C27.  Claim: ServerConfig.check returns false for every configuration   *)
(* that holds a redirect with an empty `from` or an empty `to`, so that    *)
(* main stops at the check and such a configuration never reaches request  *)
(* handling.                                                               *)
C27_EmptyRedirectRejected ==
    (HasEmptyRedirect(cfg) /\ pc \notin {"main", "sanitised"}) => pc = "fatal"

=============================================================================
